---- MODULE Spec2Model ----
(***************************************************************************)
(* Model of the Polly dashboard servers.                                   *)
(*                                                                         *)
(*   src/unnamed/part_000     the full server: ledger, signer, market      *)
(*                            cache, balances, decision logs               *)
(*   src/dashboard/server.js  the small dashboard server: markets and      *)
(*                            decision logs                                *)
(*                                                                         *)
(* Node runs every handler to completion on one thread: a handler without  *)
(* an await is one atomic action, a handler with an await is one action    *)
(* up to the await and one action for each continuation.                   *)
(*                                                                         *)
(* Conventions: an optional value (null / undefined) is the empty          *)
(* sequence <<>>, a present value x is <<x>>.  Prices are in hundredths,   *)
(* ledger amounts in thousandths, so that the roundings of the code        *)
(* (toFixed) are real conversions.                                         *)
(***************************************************************************)
EXTENDS Integers, Sequences, FiniteSets, TLC

VARIABLES
    \* ---- market cache (part_000 lines 90-134, 184-192; dashboard 19-51)
    mclock,             \* Date.now() in ms
    marketsCache,       \* _marketsCache: <<>> (null) or <<list>>
    marketsCacheTime,   \* _marketsCacheTime
    cacheOwner,         \* history: the call whose result is cached, 0 if none
    calls,              \* per fetchMarkets call: position and locals
    dashResp,           \* last response of the dashboard's GET /api/markets
    \* ---- ledger (part_000 lines 39-46, 255-314)
    dataFile,           \* content of polly-data.json
    reqs,               \* the append requests: received, handled, answered
    lastGet,            \* last response of GET /api/pnl or GET /api/transfers
    \* ---- request signer (part_000 lines 27, 48-61)
    sclock,             \* Date.now() in ms
    API_SECRET,         \* process.env.POLYMARKET_API_SECRET
    signLog,            \* history: the invocations of buildClobHeaders
    \* ---- decision logs (part_000 lines 244-252; dashboard 93-103)
    decResp,            \* last response of GET /api/decisions/:file
    \* ---- balances (part_000 lines 23-25, 69-88, 152-181)
    HOLDING_PUB,        \* process.env.HOLDING_WALLET_PUBLIC || ""
    POLY_WALLET,        \* process.env.POLYMARKET_WALLET_ADDRESS || ""
    lookups,            \* the four balance lookups of the request in progress
    balResp             \* last response of GET /api/balances

marketVars == <<mclock, marketsCache, marketsCacheTime, cacheOwner, calls, dashResp>>
ledgerVars == <<dataFile, reqs, lastGet>>
signerVars == <<sclock, API_SECRET, signLog>>
decisionVars == <<decResp>>
balanceVars == <<HOLDING_PUB, POLY_WALLET, lookups, balResp>>
vars == <<marketVars, ledgerVars, signerVars, decisionVars, balanceVars>>

\* the parts of the server an action of another part leaves alone
notMarket == <<ledgerVars, signerVars, decisionVars, balanceVars>>
notLedger == <<marketVars, signerVars, decisionVars, balanceVars>>
notSigner == <<marketVars, ledgerVars, decisionVars, balanceVars>>
notDecisions == <<marketVars, ledgerVars, signerVars, balanceVars>>
notBalances == <<marketVars, ledgerVars, signerVars, decisionVars>>

Null == <<>>
Some(x) == <<x>>

\* ------------------------------------------------------------------ bounds
MaxCalls == 3
MaxTicks == 2

\* --------------------------------------------------------- program constants
CACHE_TTL == 60000
VOLUME_FLOOR == 1000
DASH_VOLUME_FLOOR == 5000
DEFAULT_PRICE == 50

CallIds == 1..MaxCalls

\* ----------------------------------------------------- upstream market data
\* A stringified JSON sub-field of a raw market record, by what JSON.parse
\* makes of it: undefined (absent), the empty string, an array, or text that
\* is not JSON.
Undef == [k |-> "undef", v |-> <<>>]
Empty == [k |-> "empty", v |-> <<>>]
Arr(s) == [k |-> "arr", v |-> s]
Bad == [k |-> "bad", v |-> <<>>]

\* JSON.parse(s): ok with the array, or a SyntaxError (undefined is coerced
\* to the text "undefined", which is not JSON; so is the empty string).
JSONparse(s) == IF s.k = "arr" THEN [ok |-> TRUE, v |-> s.v] ELSE [ok |-> FALSE, v |-> <<>>]

\* s || "[]"
OrEmptyArray(s) == IF s.k \in {"undef", "empty"} THEN Arr(<<>>) ELSE s

Raw(id, ob, vol, v24, prices, outcomes, tokens) ==
    [id |-> id, enableOrderBook |-> ob, volumeNum |-> vol, volume24hr |-> v24,
     outcomePrices |-> prices, outcomes |-> outcomes, clobTokenIds |-> tokens]

YesNo == Arr(<<"Yes", "No">>)
Toks == Arr(<<"t1", "t2">>)

RawRecords ==
    { Raw(1, TRUE, 9000, 10, Arr(<<30, 70>>), YesNo, Toks),
      Raw(2, TRUE, 3000, 20, Undef, Undef, Empty),
      Raw(3, TRUE, 8000, 30, Bad, YesNo, Toks),
      Raw(4, FALSE, 9000, 40, Arr(<<45>>), Bad, Bad) }

MaxBatch == 1
Batches == UNION { [1..n -> RawRecords] : n \in 0..MaxBatch }


\* ------------------------------------------------------------ pure helpers
\* Array.prototype.filter
RECURSIVE SelectSeqR(_, _)
SelectSeqR(s, keep) ==
    IF s = <<>> THEN <<>>
    ELSE IF Head(s) \in keep THEN <<Head(s)>> \o SelectSeqR(Tail(s), keep)
         ELSE SelectSeqR(Tail(s), keep)

\* insertion of m into a list sorted by volume24h descending, after its equals
\* (Array.prototype.sort is stable)
RECURSIVE InsertDesc(_, _)
InsertDesc(m, s) ==
    IF s = <<>> THEN <<m>>
    ELSE IF Head(s).volume24h >= m.volume24h THEN <<Head(s)>> \o InsertDesc(m, Tail(s))
         ELSE <<m>> \o s

\* .sort((a, b) => b.volume24h - a.volume24h)
RECURSIVE SortDesc(_)
SortDesc(s) == IF s = <<>> THEN <<>> ELSE InsertDesc(s[Len(s)], SortDesc(SubSeq(s, 1, Len(s) - 1)))

\* prices[i] ?? 0.5
PriceAt(prices, i) == IF i <= Len(prices) THEN prices[i] ELSE DEFAULT_PRICE

\* ---- fetchMarkets: filter and map of part_000
Eligible(m) == m.enableOrderBook /\ m.volumeNum > VOLUME_FLOOR

\* the map callback throws when one of its three JSON.parse calls throws
MapThrows(m) ==
    \/ ~JSONparse(OrEmptyArray(m.outcomePrices)).ok
    \/ ~JSONparse(OrEmptyArray(m.outcomes)).ok
    \/ ~JSONparse(OrEmptyArray(m.clobTokenIds)).ok

MapMarket(m) ==
    LET prices == JSONparse(OrEmptyArray(m.outcomePrices)).v IN
    [id |-> m.id,
     yesPrice |-> PriceAt(prices, 1),
     noPrice |-> PriceAt(prices, 2),
     outcomes |-> JSONparse(OrEmptyArray(m.outcomes)).v,
     tokens |-> JSONparse(OrEmptyArray(m.clobTokenIds)).v,
     volume24h |-> m.volume24hr]

\* r.data.filter(...).map(...).sort(...): the list, or the exception of the
\* first record whose map callback throws
Transform(batch) ==
    LET kept == SelectSeqR(batch, {m \in RawRecords : Eligible(m)}) IN
    IF \E i \in 1..Len(kept) : MapThrows(kept[i])
    THEN [ok |-> FALSE, markets |-> <<>>]
    ELSE [ok |-> TRUE, markets |-> SortDesc([i \in 1..Len(kept) |-> MapMarket(kept[i])])]

\* ---- GET /api/markets of dashboard/server.js
DashEligible(m) == m.enableOrderBook /\ m.volumeNum > DASH_VOLUME_FLOOR

DashMapThrows(m) == ~JSONparse(m.outcomePrices).ok \/ ~JSONparse(m.outcomes).ok

DashMapMarket(m) ==
    LET prices == JSONparse(m.outcomePrices).v IN
    [id |-> m.id,
     yesPrice |-> PriceAt(prices, 1),
     noPrice |-> PriceAt(prices, 2),
     outcomes |-> JSONparse(m.outcomes).v,
     tokens |-> <<>>,
     volume24h |-> m.volume24hr]

DashTransform(batch) ==
    LET kept == SelectSeqR(batch, {m \in RawRecords : DashEligible(m)}) IN
    IF \E i \in 1..Len(kept) : DashMapThrows(kept[i])
    THEN [ok |-> FALSE, markets |-> <<>>]
    ELSE [ok |-> TRUE, markets |-> SortDesc([i \in 1..Len(kept) |-> DashMapMarket(kept[i])])]

\* ------------------------------------------------------------ market cache
\* pc of a fetchMarkets call: idle (not started), hit (returned the cached
\* list), awaiting (upstream GET issued), stored (transformed, cached and
\* returned), threw (the transform threw), failed (the GET rejected)
IdleCall == [pc |-> "idle", now |-> 0]

IssuedGet(c) == calls[c].pc \in {"awaiting", "stored", "threw", "failed"}

MarketInit ==
    /\ mclock = 2 * CACHE_TTL
    /\ marketsCache = Null
    /\ marketsCacheTime = 0
    /\ cacheOwner = 0
    /\ calls = [c \in CallIds |-> IdleCall]
    /\ dashResp = [ok |-> TRUE, markets |-> <<>>, batch |-> Null]

\* time passes: Date.now() advances by half the staleness window
Tick ==
    /\ mclock < 2 * CACHE_TTL + MaxTicks * (CACHE_TTL \div 2)
    /\ mclock' = mclock + CACHE_TTL \div 2
    /\ UNCHANGED <<marketsCache, marketsCacheTime, cacheOwner, calls, dashResp>>
    /\ UNCHANGED notMarket

\* a staleness window of 60 ms instead of 60 s
CacheFreshShortWindow(now) == marketsCache # Null /\ now - marketsCacheTime < CACHE_TTL \div 1000

\* if (_marketsCache && now - _marketsCacheTime < 60000)
CacheFresh(now) == marketsCache # Null /\ now - marketsCacheTime < CACHE_TTL

\* GET /api/markets -> fetchMarkets up to its await: a hit returns the cached
\* list, a miss issues the upstream GET and suspends.  Calls are numbered in
\* the order they start.
CallStart(c) ==
    /\ calls[c].pc = "idle"
    /\ \A d \in CallIds : d < c => calls[d].pc # "idle"
    /\ calls' = [calls EXCEPT ![c] =
            [pc |-> IF CacheFresh(mclock) THEN "hit" ELSE "awaiting", now |-> mclock]]
    /\ UNCHANGED <<mclock, marketsCache, marketsCacheTime, cacheOwner, dashResp>>
    /\ UNCHANGED notMarket

\* the awaited GET resolves with r.data = batch: transform, store, return;
\* an exception of the transform rejects the call and the handler answers 500
UpstreamReply(c, batch) ==
    /\ calls[c].pc = "awaiting"
    /\ IF Transform(batch).ok
       THEN /\ marketsCache' = Some(Transform(batch).markets)
            /\ marketsCacheTime' = calls[c].now
            /\ cacheOwner' = c
            /\ calls' = [calls EXCEPT ![c].pc = "stored"]
       ELSE /\ calls' = [calls EXCEPT ![c].pc = "threw"]
            /\ UNCHANGED <<marketsCache, marketsCacheTime, cacheOwner>>
    /\ UNCHANGED <<mclock, dashResp>>
    /\ UNCHANGED notMarket

\* a failure that also drops the cached list
UpstreamFailClearsCache(c) ==
    /\ calls[c].pc = "awaiting"
    /\ calls' = [calls EXCEPT ![c].pc = "failed"]
    /\ marketsCache' = Null
    /\ marketsCacheTime' = 0
    /\ cacheOwner' = 0
    /\ UNCHANGED <<mclock, dashResp>>
    /\ UNCHANGED notMarket

\* the awaited GET rejects (network error, timeout, non-2xx): nothing is stored
UpstreamFail(c) ==
    /\ calls[c].pc = "awaiting"
    /\ calls' = [calls EXCEPT ![c].pc = "failed"]
    /\ UNCHANGED <<mclock, marketsCache, marketsCacheTime, cacheOwner, dashResp>>
    /\ UNCHANGED notMarket

\* GET /api/markets of dashboard/server.js, with the upstream answer batch
DashGetMarkets(batch) ==
    /\ dashResp' = [ok |-> DashTransform(batch).ok,
                    markets |-> DashTransform(batch).markets,
                    batch |-> Some(batch)]
    /\ UNCHANGED <<mclock, marketsCache, marketsCacheTime, cacheOwner, calls>>
    /\ UNCHANGED notMarket

CacheNext ==
    \/ Tick
    \/ \E c \in CallIds : CallStart(c)
    \/ \E c \in CallIds, b \in Batches : UpstreamReply(c, b)
    \/ \E c \in CallIds : UpstreamFail(c)

\* one request at a time to each of the two servers' GET /api/markets
MarketsNext ==
    \/ Tick
    \/ CallStart(1)
    \/ \E b \in Batches : UpstreamReply(1, b)
    \/ UpstreamFail(1)
    \/ \E b \in Batches : DashGetMarkets(b)

\* ------------------------------------------------------------------ ledger
MaxReqs == 2
ReqIds == 1..MaxReqs
DISPLAY_LIMIT == 50

\* req.body of POST /api/trades: optional size and pnl (thousandths) and an
\* optional settled flag; ref tells the requests apart
TB(size, pnl, settled) == [size |-> size, pnl |-> pnl, settled |-> settled]

TradeBodies ==
    { TB(<<25000>>, <<>>, <<>>),
      TB(<<4>>, <<>>, <<>>),
      TB(<<100000>>, <<10000>>, <<TRUE>>),
      TB(<<50000>>, <<-5000>>, <<TRUE>>),
      TB(<<20000>>, <<>>, <<FALSE>>),
      TB(<<>>, <<0>>, <<TRUE>>) }

NoteBody == TB(<<>>, <<>>, <<>>)

\* the JSON document: each key absent (<<>>) or a sequence (<<seq>>)
Doc(t, x, n) == [trades |-> t, transfers |-> x, notes |-> n]
EmptyDoc == Doc(<<<<>>>>, <<<<>>>>, <<<<>>>>)

\* the backing file: absent or unreadable, not JSON, the JSON null, or a
\* JSON object
File(k, d) == [k |-> k, d |-> d]

InitialFiles ==
    { File("absent", EmptyDoc), File("garbage", EmptyDoc), File("null", EmptyDoc),
      File("doc", Doc(<<>>, <<>>, <<>>)),
      File("doc", Doc(<<<<>>>>, <<>>, <<>>)),
      File("doc", Doc(<<>>, <<<<>>>>, <<<<>>>>)),
      File("doc", EmptyDoc),
      File("doc", Doc(<<<<[ref |-> 0, size |-> <<100000>>, pnl |-> <<10000>>, settled |-> <<TRUE>>],
                          [ref |-> 0, size |-> <<50000>>, pnl |-> <<-5000>>, settled |-> <<TRUE>>]>>>>,
                      <<<<>>>>, <<<<>>>>)) }

\* loadData(): the parsed file, or the default document when reading or
\* parsing throws.  null: the file holds the JSON null.
loadDataOf(file) ==
    IF file.k \in {"absent", "garbage"} THEN [null |-> FALSE, d |-> EmptyDoc]
    ELSE IF file.k = "null" THEN [null |-> TRUE, d |-> EmptyDoc]
    ELSE [null |-> FALSE, d |-> file.d]

loadData == loadDataOf(dataFile)

\* saveData(d): JSON.stringify leaves out the keys that are undefined
saveData(d) == File("doc", d)

\* { id, ...req.body, loggedAt }
TradeRecord(r, body) == [ref |-> r, size |-> body.size, pnl |-> body.pnl, settled |-> body.settled]

\* { ...req.body, at }
NoteRecord(r, body) == [ref |-> r]

LedgerInit ==
    /\ dataFile \in InitialFiles
    /\ reqs = [r \in ReqIds |-> [st |-> "none", kind |-> "trade", body |-> NoteBody, raced |-> FALSE]]
    /\ lastGet = [ep |-> "none", status |-> 0, body |-> <<>>]

\* a POST arrives and its body is parsed; requests are numbered in the order
\* they arrive, and any number of them may be waiting for the event loop
Receive(r, kind, body) ==
    /\ reqs[r].st = "none"
    /\ \A q \in ReqIds : q < r => reqs[q].st # "none"
    /\ reqs' = [reqs EXCEPT ![r] = [st |-> "pending", kind |-> kind, body |-> body, raced |-> FALSE]]
    /\ UNCHANGED <<dataFile, lastGet>>
    /\ UNCHANGED notLedger

\* history: another request was waiting while the handler of r ran
Raced(r) == \E q \in ReqIds : q # r /\ reqs[q].st = "pending"

\* d.trades = [trade] instead of a push
AppendTradeOverwrites(d, t) == [d EXCEPT !.trades = <<<<t>>>>]

\* d.trades.push(trade): a TypeError when d is null or has no trades
AppendTrade(d, t) == [d EXCEPT !.trades = <<Append(d.trades[1], t)>>]

\* app.post("/api/trades"): load, push, save, answer, with no await in
\* between, so without any other handler running in between
PostTrades(r) ==
    /\ reqs[r].st = "pending" /\ reqs[r].kind = "trade"
    /\ LET l == loadData IN
       IF l.null \/ l.d.trades = <<>>
       THEN /\ reqs' = [reqs EXCEPT ![r].st = "err", ![r].raced = Raced(r)]
            /\ UNCHANGED dataFile
       ELSE /\ dataFile' = saveData(AppendTrade(l.d, TradeRecord(r, reqs[r].body)))
            /\ reqs' = [reqs EXCEPT ![r].st = "ok", ![r].raced = Raced(r)]
    /\ UNCHANGED lastGet
    /\ UNCHANGED notLedger

\* d.notes = d.notes || []; d.notes.push(...)
AppendNote(d, n) ==
    [d EXCEPT !.notes = <<Append(IF d.notes = <<>> THEN <<>> ELSE d.notes[1], n)>>]

\* app.post("/api/notes")
PostNotes(r) ==
    /\ reqs[r].st = "pending" /\ reqs[r].kind = "note"
    /\ LET l == loadData IN
       IF l.null
       THEN /\ reqs' = [reqs EXCEPT ![r].st = "err", ![r].raced = Raced(r)]
            /\ UNCHANGED dataFile
       ELSE /\ dataFile' = saveData(AppendNote(l.d, NoteRecord(r, reqs[r].body)))
            /\ reqs' = [reqs EXCEPT ![r].st = "ok", ![r].raced = Raced(r)]
    /\ UNCHANGED lastGet
    /\ UNCHANGED notLedger

\* ---- metrics
\* x.toFixed(k) of the quotient n / d as an integer count of 10^-k units:
\* the nearest integer to n / d, a tie away from zero (d > 0)
RoundDiv(n, d) ==
    IF n >= 0 THEN (2 * n + d) \div (2 * d) ELSE -((2 * (-n) + d) \div (2 * d))

\* t.settled is truthy
Settled(t) == t.settled = <<TRUE>>

\* t.pnl || 0, t.size || 0
OrZero(o) == IF o = <<>> THEN 0 ELSE o[1]

\* a break-even trade counted as a win
IsWinOrBreakEven(t) == t.pnl # <<>> /\ t.pnl[1] >= 0

\* closed.filter(t => t.pnl > 0)
IsWin(t) == t.pnl # <<>> /\ t.pnl[1] > 0

\* Array.prototype.filter with a predicate given as the set of kept indices
RECURSIVE FilterSeq(_, _, _)
FilterSeq(s, i, keepIdx) ==
    IF i > Len(s) THEN <<>>
    ELSE IF i \in keepIdx THEN <<s[i]>> \o FilterSeq(s, i + 1, keepIdx)
         ELSE FilterSeq(s, i + 1, keepIdx)

\* closed.reduce((s, t) => s + (t.pnl || 0), 0)
RECURSIVE ReducePnl(_)
ReducePnl(s) == IF s = <<>> THEN 0 ELSE ReducePnl(SubSeq(s, 1, Len(s) - 1)) + OrZero(s[Len(s)].pnl)

\* the stake summed over the settled trades only
RECURSIVE ReduceSizeSettledOnly(_)
ReduceSizeSettledOnly(s) ==
    IF s = <<>> THEN 0
    ELSE ReduceSizeSettledOnly(SubSeq(s, 1, Len(s) - 1))
         + (IF Settled(s[Len(s)]) THEN OrZero(s[Len(s)].size) ELSE 0)

\* trades.reduce((s, t) => s + (t.size || 0), 0)
RECURSIVE ReduceSize(_)
ReduceSize(s) == IF s = <<>> THEN 0 ELSE ReduceSize(SubSeq(s, 1, Len(s) - 1)) + OrZero(s[Len(s)].size)

\* s.slice(-50).reverse()
LastReversed(s) ==
    LET n == IF Len(s) > DISPLAY_LIMIT THEN DISPLAY_LIMIT ELSE Len(s) IN
    [i \in 1..n |-> s[Len(s) + 1 - i]]

\* the body of GET /api/pnl for the trade list: amounts in hundredths,
\* successRate in tenths of a percent, roi in hundredths of a percent
PnlBody(trades) ==
    LET closed == FilterSeq(trades, 1, {i \in 1..Len(trades) : Settled(trades[i])})
        wins == FilterSeq(closed, 1, {i \in 1..Len(closed) : IsWin(closed[i])})
        totalPnl == ReducePnl(closed)
        totalBet == ReduceSize(trades)
    IN  [totalPnl |-> RoundDiv(totalPnl, 10),
         totalBet |-> RoundDiv(totalBet, 10),
         totalTrades |-> Len(trades),
         settled |-> Len(closed),
         wins |-> Len(wins),
         losses |-> Len(closed) - Len(wins),
         successRate |-> IF Len(closed) # 0 THEN RoundDiv(1000 * Len(wins), Len(closed)) ELSE 0,
         roi |-> IF totalBet > 0 THEN RoundDiv(10000 * totalPnl, totalBet) ELSE 0,
         trades |-> LastReversed(trades)]

\* what GET /api/pnl answers when the file is file: d.trades of null throws
\* and is answered 500
PnlResponseOf(file) ==
    LET l == loadDataOf(file) IN
    IF l.null THEN [ep |-> "pnl", status |-> 500, body |-> <<>>]
    ELSE [ep |-> "pnl", status |-> 200,
          body |-> <<PnlBody(IF l.d.trades = <<>> THEN <<>> ELSE l.d.trades[1])>>]

PnlResponse == PnlResponseOf(dataFile)

\* app.get("/api/pnl")
GetPnl ==
    /\ lastGet' = PnlResponse
    /\ UNCHANGED <<dataFile, reqs>>
    /\ UNCHANGED notLedger

\* app.get("/api/transfers"): no try/catch, d.transfers of null throws and
\* express answers 500
GetTransfers ==
    /\ LET l == loadData IN
       lastGet' = IF l.null THEN [ep |-> "transfers", status |-> 500, body |-> <<>>]
                  ELSE [ep |-> "transfers", status |-> 200,
                        body |-> <<LastReversed(IF l.d.transfers = <<>> THEN <<>> ELSE l.d.transfers[1])>>]
    /\ UNCHANGED <<dataFile, reqs>>
    /\ UNCHANGED notLedger

\* the event loop runs the handler of every request that waits
HandleSome == \E r \in ReqIds : PostTrades(r) \/ PostNotes(r)

LedgerNext ==
    \/ \E r \in ReqIds, b \in TradeBodies : Receive(r, "trade", b)
    \/ \E r \in ReqIds : Receive(r, "note", NoteBody)
    \/ \E r \in ReqIds : PostTrades(r)
    \/ \E r \in ReqIds : PostNotes(r)
    \/ GetPnl
    \/ GetTransfers

\* ---------------------------------------------------------- request signer
MaxSigns == 2
MaxSignTicks == 3
MS_PER_SEC == 1000
EPOCH_MS == 1700000000

Methods == {"get", "GET", "post"}
Paths == {"/data/orders", "/order"}
Bodies == {"", "{}"}
Secrets == {"c2VjcmV0", "a2V5"}

\* String.prototype.toUpperCase on the methods
toUpperCase(m) == CASE m = "get" -> "GET" [] m = "post" -> "POST" [] OTHER -> m

\* Buffer.from(s, "base64") and digest("base64url"), as symbolic terms
Base64Decode(s) == <<"base64", s>>
Base64Url(d) == <<"base64url", d>>

\* crypto.createHmac("sha256", key).update(msg).digest(): a symbolic term,
\* equal for equal key and message only
HmacSha256(key, msg) == <<"hmac-sha256", key, msg>>

\* the timestamp taken in milliseconds
buildClobHeadersMillis(method, reqPath, body, now) ==
    LET ts == ToString(now)
        msg == ts \o toUpperCase(method) \o reqPath \o body
        key == Base64Decode(API_SECRET)
        sig == Base64Url(HmacSha256(key, msg))
    IN  [POLY_SIGNATURE |-> sig, POLY_TIMESTAMP |-> ts]

\* buildClobHeaders(method, reqPath, body) called when Date.now() = now
buildClobHeaders(method, reqPath, body, now) ==
    LET ts == ToString(now \div MS_PER_SEC)
        msg == ts \o toUpperCase(method) \o reqPath \o body
        key == Base64Decode(API_SECRET)
        sig == Base64Url(HmacSha256(key, msg))
    IN  [POLY_SIGNATURE |-> sig, POLY_TIMESTAMP |-> ts]

SignerInit ==
    /\ sclock = EPOCH_MS
    /\ API_SECRET \in Secrets
    /\ signLog = {}

SignerTick ==
    /\ sclock < EPOCH_MS + MaxSignTicks * (MS_PER_SEC \div 2)
    /\ sclock' = sclock + MS_PER_SEC \div 2
    /\ UNCHANGED <<API_SECRET, signLog>>
    /\ UNCHANGED notSigner

\* one invocation; the log keeps its arguments, the time and the headers
Sign(method, reqPath, body) ==
    /\ Cardinality(signLog) < MaxSigns
    /\ signLog' = signLog \cup
          {[method |-> method, path |-> reqPath, body |-> body, at |-> sclock,
            headers |-> buildClobHeaders(method, reqPath, body, sclock)]}
    /\ UNCHANGED <<sclock, API_SECRET>>
    /\ UNCHANGED notSigner

SignerNext ==
    \/ SignerTick
    \/ \E m \in Methods, p \in Paths, b \in Bodies : Sign(m, p, b)

\* ------------------------------------------------------------ decision logs
MaxSegs == 2

\* a path is its sequence of segments; the root is <<>>
DECISIONS_DIR == <<"app", "decisions">>

\* the files of the host: those of the decisions directory and others
FileContent ==
    (<<"app", "decisions", "a.md">> :> "decision log a") @@
    (<<"app", "secret">> :> "credentials") @@
    (<<"secret">> :> "host secret")

Directories == {<<>>, <<"app">>, <<"app", "decisions">>}

\* the :file parameter after percent-decoding, split at "/"
Segs == {"..", ".", "", "a.md", "secret", "app", "decisions"}
Params == UNION { [1..n -> Segs] : n \in 1..MaxSegs }

\* path.normalize of an absolute path: "" and "." dropped, ".." leaves the
\* last segment, and stays at the root
RECURSIVE Normalize(_, _)
Normalize(done, todo) ==
    IF todo = <<>> THEN done
    ELSE IF Head(todo) \in {"", "."} THEN Normalize(done, Tail(todo))
    ELSE IF Head(todo) = ".."
         THEN Normalize(IF done = <<>> THEN <<>> ELSE SubSeq(done, 1, Len(done) - 1), Tail(todo))
    ELSE Normalize(Append(done, Head(todo)), Tail(todo))

\* path.join(dir, p)
pathJoin(dir, p) == Normalize(<<>>, dir \o p)

\* path.basename(p): what follows the last "/", trailing "/" ignored
RECURSIVE basename(_)
basename(p) ==
    IF p = <<>> THEN ""
    ELSE IF p[Len(p)] = "" THEN basename(SubSeq(p, 1, Len(p) - 1))
    ELSE p[Len(p)]

existsSync(fp) == fp \in DOMAIN FileContent \/ fp \in Directories

\* existsSync, then readFileSync, which throws on a directory
ReadResponse(server, param, fp) ==
    IF ~existsSync(fp) THEN [server |-> server, param |-> param, status |-> 404, path |-> fp, content |-> ""]
    ELSE IF fp \in Directories THEN [server |-> server, param |-> param, status |-> 500, path |-> fp, content |-> ""]
    ELSE [server |-> server, param |-> param, status |-> 200, path |-> fp, content |-> FileContent[fp]]

\* app.get("/api/decisions/:file") of part_000
GetDecision(param) ==
    /\ decResp' = ReadResponse("main", param, pathJoin(DECISIONS_DIR, <<basename(param)>>))
    /\ UNCHANGED notDecisions

\* app.get("/api/decisions/:file") of dashboard/server.js
DashGetDecision(param) ==
    /\ decResp' = ReadResponse("dashboard", param, pathJoin(DECISIONS_DIR, param))
    /\ UNCHANGED notDecisions

DecisionsInit == decResp = [server |-> "none", param |-> <<>>, status |-> 0, path |-> <<>>, content |-> ""]

DecisionsNext ==
    \/ \E p \in Params : GetDecision(p)
    \/ \E p \in Params : DashGetDecision(p)

\* ----------------------------------------------------------------- balances
\* the lookups of Promise.all, in its order
LookupIds == 1..4
IsUsdc(i) == i \in {1, 3}
Address(i) == IF i \in {1, 2} THEN HOLDING_PUB ELSE POLY_WALLET

\* what the node answers: balanceOf in token units, getBalance in wei
TokenRaw == {0, 2500000}
TokenDecimals == {6}
NativeRaw == {0, 3}

RECURSIVE Pow10(_)
Pow10(n) == IF n = 0 THEN 1 ELSE 10 * Pow10(n - 1)

\* parseFloat(ethers.formatUnits(b, d)), in millionths (d <= 6)
FormatUnits(b, d) == b * Pow10(6 - d)

IdleLookup == [st |-> "idle", v |-> Null, rpc |-> 0]

BalancesInit ==
    /\ HOLDING_PUB \in {"", "0xH"}
    /\ POLY_WALLET \in {"", "0xP"}
    /\ lookups = [i \in LookupIds |-> IdleLookup]
    /\ balResp = [st |-> "none", ok |-> TRUE, v |-> [i \in LookupIds |-> Null], totalUsdc |-> 0]

\* ADDRESS ? getXBalance(ADDRESS) : null, up to the await of the lookup: an
\* empty address gives null at once, any other issues the node calls (four
\* for the two token contracts, one for the native balance)
StartLookup(i) ==
    IF Address(i) = "" THEN [st |-> "skipped", v |-> Null, rpc |-> 0]
    ELSE [st |-> "pending", v |-> Null, rpc |-> IF IsUsdc(i) THEN 4 ELSE 1]

\* app.get("/api/balances") up to its await: the four lookups start
BalancesStart ==
    /\ \A i \in LookupIds : lookups[i].st # "pending"
    /\ lookups' = [i \in LookupIds |-> StartLookup(i)]
    /\ balResp' = [balResp EXCEPT !.st = "none"]
    /\ UNCHANGED <<HOLDING_PUB, POLY_WALLET>>
    /\ UNCHANGED notBalances

\* a lookup without its try/catch: the exception rejects the lookup
LookupRejected == [st |-> "rejected", v |-> Null, rpc |-> 0]

\* getUsdcBalance / getMaticBalance: a node call throws, caught: null
LookupFailed == [st |-> "failed", v |-> Null, rpc |-> 0]

LookupFails(i) ==
    /\ lookups[i].st = "pending"
    /\ lookups' = [lookups EXCEPT ![i] = [LookupFailed EXCEPT !.rpc = lookups[i].rpc]]
    /\ UNCHANGED <<HOLDING_PUB, POLY_WALLET, balResp>>
    /\ UNCHANGED notBalances

\* getUsdcBalance: both balances and decimals arrive
UsdcResolves(i, b1, d1, b2, d2) ==
    /\ lookups[i].st = "pending" /\ IsUsdc(i)
    /\ lookups' = [lookups EXCEPT ![i].st = "value",
                                  ![i].v = Some(FormatUnits(b1, d1) + FormatUnits(b2, d2))]
    /\ UNCHANGED <<HOLDING_PUB, POLY_WALLET, balResp>>
    /\ UNCHANGED notBalances

\* getMaticBalance: the balance arrives
MaticResolves(i, b) ==
    /\ lookups[i].st = "pending" /\ ~IsUsdc(i)
    /\ lookups' = [lookups EXCEPT ![i].st = "value", ![i].v = Some(b)]
    /\ UNCHANGED <<HOLDING_PUB, POLY_WALLET, balResp>>
    /\ UNCHANGED notBalances

\* x ?? 0
OrNullZero(o) == IF o = Null THEN 0 ELSE o[1]

\* the continuation of Promise.all: every lookup is fulfilled and the
\* balances are answered, or one is rejected and the catch answers 500
BalancesRespond ==
    /\ balResp.st = "none"
    /\ \/ /\ \A i \in LookupIds : lookups[i].st \in {"skipped", "failed", "value"}
          /\ balResp' = [st |-> "sent", ok |-> TRUE,
                         v |-> [i \in LookupIds |-> lookups[i].v],
                         totalUsdc |-> OrNullZero(lookups[1].v) + OrNullZero(lookups[3].v)]
       \/ /\ \E i \in LookupIds : lookups[i].st = "rejected"
          /\ balResp' = [st |-> "sent", ok |-> FALSE,
                         v |-> [i \in LookupIds |-> Null], totalUsdc |-> 0]
    /\ UNCHANGED <<HOLDING_PUB, POLY_WALLET, lookups>>
    /\ UNCHANGED notBalances

BalancesNext ==
    \/ BalancesStart
    \/ \E i \in LookupIds : LookupFails(i)
    \/ \E i \in LookupIds, b1, b2 \in TokenRaw, d1, d2 \in TokenDecimals : UsdcResolves(i, b1, d1, b2, d2)
    \/ \E i \in LookupIds, b \in NativeRaw : MaticResolves(i, b)
    \/ BalancesRespond

\* ----------------------------------------------------------- specifications
\* each specification runs one part of the server from its initial state
\* and holds the other parts still
LedgerStill == dataFile = File("absent", EmptyDoc) /\ LedgerInit
SignerStill == API_SECRET = "c2VjcmV0" /\ SignerInit
BalancesStill == HOLDING_PUB = "" /\ POLY_WALLET = "" /\ BalancesInit

InitCache == MarketInit /\ LedgerStill /\ SignerStill /\ DecisionsInit /\ BalancesStill
InitLedger == MarketInit /\ LedgerInit /\ SignerStill /\ DecisionsInit /\ BalancesStill
InitSigner == MarketInit /\ LedgerStill /\ SignerInit /\ DecisionsInit /\ BalancesStill
InitBalances == MarketInit /\ LedgerStill /\ SignerStill /\ DecisionsInit /\ BalancesInit

SpecCache == InitCache /\ [][CacheNext]_vars
SpecMarkets == InitCache /\ [][MarketsNext]_vars
SpecLedger == InitLedger /\ [][LedgerNext]_vars
SpecLedgerFair == InitLedger /\ [][LedgerNext]_vars /\ WF_vars(HandleSome)
SpecSigner == InitSigner /\ [][SignerNext]_vars
SpecDecisions == InitCache /\ [][DecisionsNext]_vars
SpecBalances == InitBalances /\ [][BalancesNext]_vars

Init == MarketInit /\ LedgerInit /\ SignerInit /\ DecisionsInit /\ BalancesInit
Next == CacheNext \/ MarketsNext \/ LedgerNext \/ SignerNext \/ DecisionsNext \/ BalancesNext
Spec == Init /\ [][Next]_vars

\* ======================================================================
\* Properties of the market cache (SpecCache) and of GET /api/markets
\* (SpecMarkets)
\* ======================================================================

\* C1 as stated: of any two fetchMarkets calls that start less than 60 s
\* apart, at most one issues an upstream GET, in every interleaving.
C1_AtMostOneUpstreamGet ==
    \A c1, c2 \in CallIds :
        (/\ c1 < c2
         /\ calls[c1].pc # "idle" /\ calls[c2].pc # "idle"
         /\ calls[c2].now - calls[c1].now < CACHE_TTL)
        => ~(IssuedGet(c1) /\ IssuedGet(c2))

\* C1 amended: a call that starts while the cache holds the result of an
\* earlier call, less than 60 s after that earlier call started, is answered
\* from the cache: it issues no upstream GET and leaves the cache alone.
C1_SecondCallAnsweredFromCache ==
    [][\A c \in CallIds :
          (/\ calls[c].pc = "idle" /\ calls'[c].pc # "idle"
           /\ cacheOwner # 0
           /\ mclock - calls[cacheOwner].now < CACHE_TTL)
          => (/\ calls'[c].pc = "hit"
              /\ ~IssuedGet(c)'
              /\ UNCHANGED <<marketsCache, marketsCacheTime, cacheOwner>>)]_vars

\* a call that started later than the call whose result is cached, and was
\* answered from the cache
C1_Witness ==
    \E c \in CallIds :
        /\ calls[c].pc = "hit"
        /\ cacheOwner \in CallIds /\ cacheOwner # c
        /\ calls[cacheOwner].pc = "stored"
        /\ calls[c].now > calls[cacheOwner].now

\* C8 as stated: a record with a malformed stringified sub-field never makes
\* GET /api/markets fail; the batch is returned.  For part_000 the transform
\* never throws; for dashboard/server.js a batch with an eligible record whose
\* outcomePrices or outcomes is malformed is answered ok.
C8_MalformedNeverPropagated ==
    /\ \A c \in CallIds : calls[c].pc # "threw"
    /\ (/\ dashResp.batch # Null
        /\ \E i \in 1..Len(dashResp.batch[1]) :
              /\ DashEligible(dashResp.batch[1][i])
              /\ Bad \in {dashResp.batch[1][i].outcomePrices, dashResp.batch[1][i].outcomes})
       => dashResp.ok

\* C10 as stated: _marketsCacheTime never decreases, the cached list is never
\* replaced by the result of a call that started earlier than the call whose
\* result is cached, and a failed call leaves the cache and its time unchanged.
C10_CacheTimeNeverDecreases ==
    [][/\ marketsCacheTime' >= marketsCacheTime
       /\ (cacheOwner' # cacheOwner /\ cacheOwner # 0) => cacheOwner' > cacheOwner
       /\ \A c \in CallIds :
             (calls[c].pc = "awaiting" /\ calls'[c].pc = "failed")
             => UNCHANGED <<marketsCache, marketsCacheTime>>]_vars

\* C10 amended: the cache changes only when an awaited call stores its
\* result, and then _marketsCacheTime becomes the start time of that call; a
\* call whose upstream request fails, or whose transform throws, leaves both
\* unchanged; the timestamp decreases only when the storing call started
\* before the call whose result was cached.
C10_CacheTimeIsStartOfStoringCall ==
    [][/\ (<<marketsCache, marketsCacheTime, cacheOwner>>' # <<marketsCache, marketsCacheTime, cacheOwner>>)
          => \E c \in CallIds :
                /\ calls[c].pc = "awaiting" /\ calls'[c].pc = "stored"
                /\ marketsCacheTime' = calls[c].now
                /\ marketsCache' # Null
                /\ cacheOwner' = c
       /\ \A c \in CallIds :
             (calls[c].pc = "awaiting" /\ calls'[c].pc \in {"failed", "threw"})
             => UNCHANGED <<marketsCache, marketsCacheTime, cacheOwner>>
       /\ marketsCacheTime' < marketsCacheTime => cacheOwner' < cacheOwner]_vars

\* a call has failed with the cache filled, and the cache holds the result
\* of a call that started before another call that stored: the time went back
C10_Witness ==
    \E c, d \in CallIds :
        /\ calls[c].pc = "failed"
        /\ calls[d].pc = "stored"
        /\ cacheOwner \in CallIds /\ cacheOwner < d
        /\ marketsCacheTime < calls[d].now

\* ======================================================================
\* Properties of the ledger (SpecLedger, SpecLedgerFair)
\* ======================================================================

\* the trade list GET /api/pnl reads from the file as it is
LedgerTrades == IF loadData.d.trades = <<>> THEN <<>> ELSE loadData.d.trades[1]

Abs(x) == IF x < 0 THEN -x ELSE x

\* the step is the handler of r answering ok to a POST /api/trades whose
\* body has a numeric size and no settled flag
PlainTradePosted(r) ==
    /\ reqs[r].st = "pending" /\ reqs'[r].st = "ok"
    /\ reqs[r].kind = "trade"
    /\ reqs[r].body.size # <<>> /\ reqs[r].body.settled = <<>>

\* C2 as stated: such a POST makes the next GET /api/pnl report totalTrades
\* one higher, totalBet higher by exactly the size, and settled, wins and
\* totalPnl unchanged (reported amounts are hundredths, sizes thousandths).
C2_TotalBetIncreasedByExactlySize ==
    [][\A r \in ReqIds : PlainTradePosted(r) =>
          /\ PnlResponse.status = 200 /\ PnlResponseOf(dataFile').status = 200
          /\ LET a == PnlResponse.body[1]
                 b == PnlResponseOf(dataFile').body[1]
             IN  /\ b.totalTrades = a.totalTrades + 1
                 /\ 10 * (b.totalBet - a.totalBet) = reqs[r].body.size[1]
                 /\ b.settled = a.settled /\ b.wins = a.wins /\ b.totalPnl = a.totalPnl]_vars

WholeCents(o) == o = <<>> \/ o[1] % 10 = 0

\* C2 amended: totalTrades is one higher and settled, wins and totalPnl are
\* unchanged; totalBet, reported rounded to two decimals, is higher by the
\* size up to that rounding (at most one cent off), and by exactly the size
\* when the size and every size already in the ledger are whole cents.
C2_TotalBetIncreasedBySizeUpToRounding ==
    [][\A r \in ReqIds : PlainTradePosted(r) =>
          /\ PnlResponse.status = 200 /\ PnlResponseOf(dataFile').status = 200
          /\ LET a == PnlResponse.body[1]
                 b == PnlResponseOf(dataFile').body[1]
                 s == reqs[r].body.size[1]
             IN  /\ b.totalTrades = a.totalTrades + 1
                 /\ Abs(10 * (b.totalBet - a.totalBet) - s) <= 10
                 /\ (/\ WholeCents(reqs[r].body.size)
                     /\ \A i \in 1..Len(LedgerTrades) : WholeCents(LedgerTrades[i].size))
                    => 10 * (b.totalBet - a.totalBet) = s
                 /\ b.settled = a.settled /\ b.wins = a.wins /\ b.totalPnl = a.totalPnl]_vars

\* {size: 25, pnl: null} was posted to a ledger that held a trade, and the
\* GET /api/pnl after it has been answered
C2_Witness ==
    \E r \in ReqIds :
        /\ reqs[r].st = "ok" /\ reqs[r].kind = "trade"
        /\ reqs[r].body = TB(<<25000>>, <<>>, <<>>)
        /\ lastGet = PnlResponse /\ lastGet.status = 200
        /\ lastGet.body[1].totalTrades >= 2
        /\ lastGet.body[1].trades[1].ref = r

\* C3 as stated: whatever the backing file holds, loadData() returns a
\* document with the keys trades, transfers and notes present, and no ledger
\* endpoint fails.
C3_LoadDataAlwaysWellFormed ==
    (lastGet.ep # "none" \/ \E r \in ReqIds : reqs[r].st \in {"ok", "err"})
    => /\ ~loadData.null
       /\ loadData.d.trades # <<>> /\ loadData.d.transfers # <<>> /\ loadData.d.notes # <<>>
       /\ \A r \in ReqIds : reqs[r].st # "err"
       /\ lastGet.status # 500

\* the sum of f over the indices in S
RECURSIVE SumOver(_, _)
SumOver(S, f) ==
    IF S = {} THEN 0 ELSE LET i == CHOOSE j \in S : TRUE IN f[i] + SumOver(S \ {i}, f)

\* q is n / d rounded to the nearest integer (d > 0)
Nearest(q, n, d) == 2 * Abs(q * d - n) <= d

\* the body b of GET /api/pnl states the metrics of the trade list ts
MetricsOf(b, ts) ==
    LET all == 1..Len(ts)
        settledIdx == {i \in all : ts[i].settled = <<TRUE>>}
        winIdx == {i \in settledIdx : ts[i].pnl # <<>> /\ ts[i].pnl[1] > 0}
        pnl == SumOver(settledIdx, [i \in all |-> IF ts[i].pnl = <<>> THEN 0 ELSE ts[i].pnl[1]])
        bet == SumOver(all, [i \in all |-> IF ts[i].size = <<>> THEN 0 ELSE ts[i].size[1]])
    IN  /\ b.totalTrades = Len(ts)
        /\ b.settled = Cardinality(settledIdx)
        /\ b.wins = Cardinality(winIdx)
        /\ b.losses = b.settled - b.wins
        /\ Nearest(b.totalPnl, pnl, 10)
        /\ Nearest(b.totalBet, bet, 10)
        /\ IF b.settled > 0 THEN Nearest(b.successRate, 1000 * b.wins, b.settled)
           ELSE b.successRate = 0
        /\ IF bet > 0 THEN Nearest(b.roi, 10000 * pnl, bet) ELSE b.roi = 0

Amounts(t) == [size |-> t.size, pnl |-> t.pnl, settled |-> t.settled]

\* [{settled:true,pnl:10,size:100},{settled:true,pnl:-5,size:50},{settled:false,size:20}]
ExampleTrades ==
    << TB(<<100000>>, <<10000>>, <<TRUE>>),
       TB(<<50000>>, <<-5000>>, <<TRUE>>),
       TB(<<20000>>, <<>>, <<FALSE>>) >>

IsExample(ts) == Len(ts) = 3 /\ \A i \in 1..3 : Amounts(ts[i]) = ExampleTrades[i]

\* C4: every answer of GET /api/pnl states, for the trade list of the file,
\* settled, wins, totalPnl, totalBet, successRate and roi as defined, at the
\* reported precision; the empty list gives zeros, and the three-trade
\* example gives totalPnl 5.00, totalBet 170.00, settled 2, wins 1,
\* successRate 50.0, roi 2.94.
C4_PnlMetrics ==
    [][(lastGet' # lastGet /\ lastGet'.ep = "pnl" /\ lastGet'.status = 200) =>
          LET b == lastGet'.body[1] IN
          /\ MetricsOf(b, LedgerTrades)
          /\ LedgerTrades = <<>> =>
                (b.successRate = 0 /\ b.roi = 0 /\ b.totalPnl = 0 /\ b.totalBet = 0)
          /\ IsExample(LedgerTrades) =>
                (/\ b.totalPnl = 500 /\ b.totalBet = 17000 /\ b.settled = 2
                 /\ b.wins = 1 /\ b.successRate = 500 /\ b.roi = 294)]_vars

\* GET /api/pnl has been answered for the three-trade example
C4_Witness ==
    /\ IsExample(LedgerTrades)
    /\ lastGet.ep = "pnl" /\ lastGet.status = 200
    /\ lastGet.body[1].totalTrades = 3 /\ lastGet.body[1].roi = 294

\* the record of request r is in the persisted ledger
Persisted(r) ==
    /\ dataFile.k = "doc"
    /\ IF reqs[r].kind = "trade"
       THEN /\ dataFile.d.trades # <<>>
            /\ \E i \in 1..Len(dataFile.d.trades[1]) : dataFile.d.trades[1][i].ref = r
       ELSE /\ dataFile.d.notes # <<>>
            /\ \E i \in 1..Len(dataFile.d.notes[1]) : dataFile.d.notes[1][i].ref = r

LostUpdate == \E r \in ReqIds : reqs[r].st = "ok" /\ ~Persisted(r)

TwoWaiting == \E q, r \in ReqIds : q # r /\ reqs[q].st = "pending" /\ reqs[r].st = "pending"

SameArguments(a, b) == a.method = b.method /\ a.path = b.path /\ a.body = b.body

\* the message the claim says is signed, for the invocation a
ClaimedMessage(a) ==
    a.headers.POLY_TIMESTAMP
        \o (IF a.method \in {"get", "GET"} THEN "GET" ELSE "POST") \o a.path \o a.body

\* the signed message is timestamp + uppercased method + path + body, with
\* the timestamp of the POLY_TIMESTAMP header
SignedMessageAsClaimed ==
    \A a \in signLog :
        a.headers.POLY_SIGNATURE = Base64Url(HmacSha256(Base64Decode(API_SECRET), ClaimedMessage(a)))

\* C6 as stated: two invocations with the same method, path, body and
\* secret, at any two moments, give the same POLY_SIGNATURE, and the signed
\* message is timestamp + uppercased method + path + body.
C6_SameArgumentsSameSignature ==
    /\ \A a, b \in signLog :
          SameArguments(a, b) => a.headers.POLY_SIGNATURE = b.headers.POLY_SIGNATURE
    /\ SignedMessageAsClaimed

\* C6 amended: the signature is a function of method, path, body, secret and
\* the current Unix second: two invocations with the same arguments give the
\* same POLY_SIGNATURE when they fall in the same second, and sign different
\* messages when they do not; POLY_TIMESTAMP is that second, and the signed
\* message is timestamp + uppercased method + path + body.
C6_SameArgumentsSameSecondSameSignature ==
    /\ \A a, b \in signLog :
          SameArguments(a, b) =>
             IF a.at \div MS_PER_SEC = b.at \div MS_PER_SEC
             THEN a.headers = b.headers
             ELSE /\ a.headers.POLY_TIMESTAMP # b.headers.POLY_TIMESTAMP
                  /\ ClaimedMessage(a) # ClaimedMessage(b)
    /\ \A a \in signLog : a.headers.POLY_TIMESTAMP = ToString(a.at \div MS_PER_SEC)
    /\ SignedMessageAsClaimed

\* the same arguments were signed at two moments of one second
C6_Witness ==
    \E a, b \in signLog :
        /\ SameArguments(a, b) /\ a.at # b.at
        /\ a.at \div MS_PER_SEC = b.at \div MS_PER_SEC
        /\ a.headers.POLY_SIGNATURE = b.headers.POLY_SIGNATURE

\* ======================================================================
\* Properties of GET /api/decisions/:file (SpecDecisions)
\* ======================================================================

\* fp is a file directly inside the decisions directory
InsideDecisions(fp) ==
    /\ Len(fp) = Len(DECISIONS_DIR) + 1
    /\ SubSeq(fp, 1, Len(DECISIONS_DIR)) = DECISIONS_DIR

\* C5 as stated: whatever the :file parameter, a handler that answers with a
\* file's content has read a file directly inside the decisions directory.
C5_NeverReadsOutsideDecisions ==
    decResp.status = 200 => InsideDecisions(decResp.path)

\* the handler of part_000, which takes the base name, keeps to the directory
C5_MainHandlerStaysInside ==
    (decResp.server = "main" /\ decResp.status = 200) => InsideDecisions(decResp.path)

\* ======================================================================
\* Properties of GET /api/balances (SpecBalances)
\* ======================================================================

\* C9: whichever lookups fail or have no address, GET /api/balances answers
\* ok; exactly those lookups are null, every other reports the value the node
\* gave, a lookup without an address issues no node call, and totalUsdc is
\* the sum of the USDC values that are not null.
C9_PartialFailureAnswersOk ==
    balResp.st = "sent" =>
        /\ balResp.ok
        /\ \A i \in LookupIds :
              /\ balResp.v[i] = Null <=> (Address(i) = "" \/ lookups[i].st = "failed")
              /\ Address(i) = "" => lookups[i].rpc = 0
              /\ lookups[i].st = "value" => balResp.v[i] = lookups[i].v /\ lookups[i].rpc > 0
        /\ balResp.totalUsdc =
              SumOver({i \in LookupIds : IsUsdc(i) /\ balResp.v[i] # Null},
                      [i \in LookupIds |-> IF balResp.v[i] = Null THEN 0 ELSE balResp.v[i][1]])

\* an answer with a lookup without address, a failed lookup and a value
C9_Witness ==
    /\ balResp.st = "sent" /\ balResp.ok
    /\ \E i, j, k \in LookupIds :
          /\ lookups[i].st = "skipped"
          /\ lookups[j].st = "failed" /\ IsUsdc(j)
          /\ lookups[k].st = "value" /\ balResp.v[k] # Null

====
